---------------------------- MODULE Spec2Model ----------------------------
(***************************************************************************)
(* Model of src/api/webhook.py: the GitHub webhook endpoint.               *)
(*                                                                         *)
(* verify_signature checks the X-Hub-Signature-256 header against the      *)
(* HMAC-SHA256 of the request body; webhook() verifies, reads the JSON     *)
(* body, tests `"ref" in data`, starts gitagent.py with subprocess.Popen,  *)
(* waits for it with communicate(), decodes its output and answers.        *)
(*                                                                         *)
(* Text is modelled as sequences of code points (str) or of byte values    *)
(* (bytes) wherever the code looks inside it; request bodies and secrets   *)
(* are named by TLA+ strings holding their exact text.                     *)
(*                                                                         *)
(* The print calls (lines 34, 44-46, 51) write to the server's log; the    *)
(* log is taken to accept the text, so they change nothing modelled here.  *)
(* The framework's part is modelled by its documented behaviour: an        *)
(* exception leaving webhook() is answered 500, request.data is empty for  *)
(* form data, request.json aborts the request on a body that is not JSON.  *)
(***************************************************************************)
EXTENDS Integers, Sequences, FiniteSets, TLC

\* Number of requests the server handles at the same time under SpecConc.
NumWorkers == 2

Workers == 1..NumWorkers

(***************************************************************************)
(* Text helpers                                                            *)
(***************************************************************************)

\* The literal "sha256=" of the f-string at line 19, as code points.
Sha256Prefix == <<115, 104, 97, 50, 53, 54, 61>>

\* One lowercase hexadecimal digit of hexdigest(): 0-9 are 48..57, a-f 97..102.
HexDigit(n) == IF n < 10 THEN 48 + n ELSE 87 + n

\* hexdigest(): two lowercase hex digits per byte, high nibble first.
HexDigest(bytes) ==
    [i \in 1..(2 * Len(bytes)) |->
        LET b == bytes[(i + 1) \div 2]
        IN  IF i % 2 = 1 THEN HexDigit(b \div 16) ELSE HexDigit(b % 16)]

\* str.isascii(): every code point is below 128.
IsAscii(s) == \A i \in 1..Len(s) : s[i] < 128

(***************************************************************************)
(* Configuration: the values os.getenv("GITHUB_WEBHOOK_SECRET") can give.  *)
(* isSet = FALSE is Python's None.                                         *)
(***************************************************************************)
NoSecret == [isSet |-> FALSE, val |-> ""]

NonEmptySecrets == {"s3cr3t", "hunter2"}

Secrets == {NoSecret} \cup {[isSet |-> TRUE, val |-> v] : v \in {""} \cup NonEmptySecrets}

\* Python truthiness of GITHUB_SECRET: None and "" are falsy.
Truthy(secret) == secret.isSet /\ secret.val # ""

(***************************************************************************)
(* Request bodies, by their exact bytes.                                   *)
(***************************************************************************)
Bodies ==
    { "{\"ref\": \"refs/heads/main\"}",
      "{\"ref\": null}",
      "{\"other\": \"field\"}",
      "{\"a\": {\"ref\": 1}}",
      "[\"ref\"]",
      "[\"other\"]",
      "\"prefer\"",
      "\"main\"",
      "5",
      "null",
      "{\"ref\": ",
      "" }

\* hmac.new(key.encode(), msg, hashlib.sha256).digest(): the 32 digest bytes,
\* tabulated for the secrets and bodies of the model (values computed with
\* Python's hmac module; the hex form is in the comment above each row).
HmacSha256(key, msg) ==
    CASE
         key = "s3cr3t" /\ msg = "{\"ref\": \"refs/heads/main\"}" ->
           \* 02273823baa3455cb1d5ca9d22e4a6c25cba837a293a3a63e4dd3524914c84c5
           <<2,39,56,35,186,163,69,92,177,213,202,157,34,228,166,194,
             92,186,131,122,41,58,58,99,228,221,53,36,145,76,132,197>>
      [] key = "s3cr3t" /\ msg = "{\"ref\": null}" ->
           \* f2351413ef36f138e69ec5a35c04de79f03cd311b468b94e642c1c51b10e52fd
           <<242,53,20,19,239,54,241,56,230,158,197,163,92,4,222,121,
             240,60,211,17,180,104,185,78,100,44,28,81,177,14,82,253>>
      [] key = "s3cr3t" /\ msg = "{\"other\": \"field\"}" ->
           \* 57aa194f486a7a8d662792fd43a0c73aa4e008d655cb15c9a6e72a13e5d75155
           <<87,170,25,79,72,106,122,141,102,39,146,253,67,160,199,58,
             164,224,8,214,85,203,21,201,166,231,42,19,229,215,81,85>>
      [] key = "s3cr3t" /\ msg = "{\"a\": {\"ref\": 1}}" ->
           \* 24013509780af4fb8e257c813234ba0b4aa9ee6b71e8f00df9c6b3d17c99caa9
           <<36,1,53,9,120,10,244,251,142,37,124,129,50,52,186,11,
             74,169,238,107,113,232,240,13,249,198,179,209,124,153,202,169>>
      [] key = "s3cr3t" /\ msg = "[\"ref\"]" ->
           \* c6d9c19ba7397bb3de33975a24c12b6f9a568f2563ced81cebcd19211333ca8f
           <<198,217,193,155,167,57,123,179,222,51,151,90,36,193,43,111,
             154,86,143,37,99,206,216,28,235,205,25,33,19,51,202,143>>
      [] key = "s3cr3t" /\ msg = "[\"other\"]" ->
           \* 6c25807bff7c1d60e374da0a4a61c58edcc613eb5ef0cd97672425718b6c18f3
           <<108,37,128,123,255,124,29,96,227,116,218,10,74,97,197,142,
             220,198,19,235,94,240,205,151,103,36,37,113,139,108,24,243>>
      [] key = "s3cr3t" /\ msg = "\"prefer\"" ->
           \* a8ba24a7ab65fc6aef70d9bd815dc617ca152c1f69a874c40e3f58c3b000d047
           <<168,186,36,167,171,101,252,106,239,112,217,189,129,93,198,23,
             202,21,44,31,105,168,116,196,14,63,88,195,176,0,208,71>>
      [] key = "s3cr3t" /\ msg = "\"main\"" ->
           \* 383fb71c60b976fbea4e6f34e5b343b5355111b3b8ff5576a83771de875e162f
           <<56,63,183,28,96,185,118,251,234,78,111,52,229,179,67,181,
             53,81,17,179,184,255,85,118,168,55,113,222,135,94,22,47>>
      [] key = "s3cr3t" /\ msg = "5" ->
           \* a217493e9ec061dfc6206666bc80f953ab6579284054438f6a0b8d71c40bf326
           <<162,23,73,62,158,192,97,223,198,32,102,102,188,128,249,83,
             171,101,121,40,64,84,67,143,106,11,141,113,196,11,243,38>>
      [] key = "s3cr3t" /\ msg = "null" ->
           \* 0adf67ad876474d1e0691a5d328507c8d214b8f30c888747ef9162bb3b08f5d3
           <<10,223,103,173,135,100,116,209,224,105,26,93,50,133,7,200,
             210,20,184,243,12,136,135,71,239,145,98,187,59,8,245,211>>
      [] key = "s3cr3t" /\ msg = "{\"ref\": " ->
           \* 4e11d556eea0d7b124e279fd91b63588a79986889e2cd7afa8b2be4f4b20d9e1
           <<78,17,213,86,238,160,215,177,36,226,121,253,145,182,53,136,
             167,153,134,136,158,44,215,175,168,178,190,79,75,32,217,225>>
      [] key = "s3cr3t" /\ msg = "" ->
           \* 3c81cc9496e1c25250f6ccb85f697c1bb623e3480d6538ad8cb6a6648142777d
           <<60,129,204,148,150,225,194,82,80,246,204,184,95,105,124,27,
             182,35,227,72,13,101,56,173,140,182,166,100,129,66,119,125>>
      [] key = "hunter2" /\ msg = "{\"ref\": \"refs/heads/main\"}" ->
           \* 0465c6785956ad6e1442315f536c77a01e1629289f64292f3e33f4dfb863175f
           <<4,101,198,120,89,86,173,110,20,66,49,95,83,108,119,160,
             30,22,41,40,159,100,41,47,62,51,244,223,184,99,23,95>>
      [] key = "hunter2" /\ msg = "{\"ref\": null}" ->
           \* d97799489c2d003ee9346e13a00025aeda628c948fe3ab4841e64b17fd85bb1e
           <<217,119,153,72,156,45,0,62,233,52,110,19,160,0,37,174,
             218,98,140,148,143,227,171,72,65,230,75,23,253,133,187,30>>
      [] key = "hunter2" /\ msg = "{\"other\": \"field\"}" ->
           \* cf3abd0979b2ec4cba60ff4924eee55e830faecc7ceb4d2b1c62c00a37605a62
           <<207,58,189,9,121,178,236,76,186,96,255,73,36,238,229,94,
             131,15,174,204,124,235,77,43,28,98,192,10,55,96,90,98>>
      [] key = "hunter2" /\ msg = "{\"a\": {\"ref\": 1}}" ->
           \* 405b519ef5f5471b97fc0400f68e0a19374443a6f218ee5c9dfc477c42ab2411
           <<64,91,81,158,245,245,71,27,151,252,4,0,246,142,10,25,
             55,68,67,166,242,24,238,92,157,252,71,124,66,171,36,17>>
      [] key = "hunter2" /\ msg = "[\"ref\"]" ->
           \* 15a350df6c33dcfc6d330778daaccac6d806bbbff005cd4ac7a12d4d5e3d4fe5
           <<21,163,80,223,108,51,220,252,109,51,7,120,218,172,202,198,
             216,6,187,191,240,5,205,74,199,161,45,77,94,61,79,229>>
      [] key = "hunter2" /\ msg = "[\"other\"]" ->
           \* bccffe15fafed73af3c1772da5fca7ef88b9701ad136de2d39a4d122486e17c2
           <<188,207,254,21,250,254,215,58,243,193,119,45,165,252,167,239,
             136,185,112,26,209,54,222,45,57,164,209,34,72,110,23,194>>
      [] key = "hunter2" /\ msg = "\"prefer\"" ->
           \* 9a5f822bc67b91f36a49da1c30422e814afad991ba2180e7c94f8d0f9e5c24b0
           <<154,95,130,43,198,123,145,243,106,73,218,28,48,66,46,129,
             74,250,217,145,186,33,128,231,201,79,141,15,158,92,36,176>>
      [] key = "hunter2" /\ msg = "\"main\"" ->
           \* b876985ad62594fa90da9dda1bc8571ba2fb89cc1d65e421c2c5509d01e3f63a
           <<184,118,152,90,214,37,148,250,144,218,157,218,27,200,87,27,
             162,251,137,204,29,101,228,33,194,197,80,157,1,227,246,58>>
      [] key = "hunter2" /\ msg = "5" ->
           \* 78684fd1e1b65a580d82778d436d49adffa2eb0318708262af46777c5f412763
           <<120,104,79,209,225,182,90,88,13,130,119,141,67,109,73,173,
             255,162,235,3,24,112,130,98,175,70,119,124,95,65,39,99>>
      [] key = "hunter2" /\ msg = "null" ->
           \* 11acf9e07fd6e19ea9f8e0fec7336afd41cc068891e6134aa078b2912f402683
           <<17,172,249,224,127,214,225,158,169,248,224,254,199,51,106,253,
             65,204,6,136,145,230,19,74,160,120,178,145,47,64,38,131>>
      [] key = "hunter2" /\ msg = "{\"ref\": " ->
           \* 48da7de3e312b8cd111e59981ff03a10965776cd9dac2a2aec1ae786af3577dc
           <<72,218,125,227,227,18,184,205,17,30,89,152,31,240,58,16,
             150,87,118,205,157,172,42,42,236,26,231,134,175,53,119,220>>
      [] key = "hunter2" /\ msg = "" ->
           \* a9ee5d331179aed5d1fba6cd59acb1461a65410fa9cb709781d1d9b2a32fd5c1
           <<169,238,93,51,17,121,174,213,209,251,166,205,89,172,177,70,
             26,101,65,15,169,203,112,151,129,209,217,178,163,47,213,193>>


\* The code points of "ref", the key tested at line 33.
RefChars == <<"r", "e", "f">>

JsonObject(keys) == [type |-> "object", keys |-> keys, items |-> <<>>, chars |-> <<>>]
JsonArray(items) == [type |-> "array", keys |-> {}, items |-> items, chars |-> <<>>]
JsonString(chars) == [type |-> "string", keys |-> {}, items |-> <<>>, chars |-> chars]
JsonNumber == [type |-> "number", keys |-> {}, items |-> <<>>, chars |-> <<>>]
JsonNull == [type |-> "null", keys |-> {}, items |-> <<>>, chars |-> <<>>]

\* json.loads(body): ok = FALSE when the bytes are not a JSON document.
\* An object is known by its top-level keys, an array by its (string)
\* elements, a string by its characters.
ParseJson(body) ==
    CASE body = "{\"ref\": \"refs/heads/main\"}" -> [ok |-> TRUE, value |-> JsonObject({"ref"})]
      [] body = "{\"ref\": null}"      -> [ok |-> TRUE, value |-> JsonObject({"ref"})]
      [] body = "{\"other\": \"field\"}" -> [ok |-> TRUE, value |-> JsonObject({"other"})]
      [] body = "{\"a\": {\"ref\": 1}}"  -> [ok |-> TRUE, value |-> JsonObject({"a"})]
      [] body = "[\"ref\"]"            -> [ok |-> TRUE, value |-> JsonArray(<<"ref">>)]
      [] body = "[\"other\"]"          -> [ok |-> TRUE, value |-> JsonArray(<<"other">>)]
      [] body = "\"prefer\""           -> [ok |-> TRUE, value |-> JsonString(<<"p", "r", "e", "f", "e", "r">>)]
      [] body = "\"main\""             -> [ok |-> TRUE, value |-> JsonString(<<"m", "a", "i", "n">>)]
      [] body = "5"                    -> [ok |-> TRUE, value |-> JsonNumber]
      [] body = "null"                 -> [ok |-> TRUE, value |-> JsonNull]
      [] OTHER                         -> [ok |-> FALSE, value |-> JsonNull]

\* Python's `"ref" in data` (line 33): key membership for a dict, element
\* membership for a list, substring search for a str, TypeError for a value
\* that is not a container (int, float, bool, None).
RefIn(data) ==
    CASE data.type = "object" -> [raised |-> FALSE, value |-> "ref" \in data.keys]
      [] data.type = "array"  ->
           [raised |-> FALSE, value |-> \E i \in 1..Len(data.items) : data.items[i] = "ref"]
      [] data.type = "string" ->
           [raised |-> FALSE,
            value |-> \E i \in 1..Len(data.chars) :
                         /\ i + 2 <= Len(data.chars)
                         /\ SubSeq(data.chars, i, i + 2) = RefChars]
      [] OTHER                -> [raised |-> TRUE, value |-> FALSE]

(***************************************************************************)
(* bytes.decode(): strict UTF-8.  Utf8Valid(b, i) says whether b[i..] is   *)
(* well-formed UTF-8.                                                      *)
(***************************************************************************)
IsCont(b, i) == i <= Len(b) /\ b[i] >= 128 /\ b[i] <= 191

RECURSIVE Utf8Valid(_, _)
Utf8Valid(b, i) ==
    IF i > Len(b) THEN TRUE
    ELSE LET c == b[i] IN
         CASE c <= 127 -> Utf8Valid(b, i + 1)
           [] c >= 194 /\ c <= 223 -> IsCont(b, i + 1) /\ Utf8Valid(b, i + 2)
           [] c >= 224 /\ c <= 239 ->
                /\ IsCont(b, i + 1) /\ IsCont(b, i + 2)
                /\ (c = 224 => b[i + 1] >= 160)
                /\ (c = 237 => b[i + 1] <= 159)
                /\ Utf8Valid(b, i + 3)
           [] c >= 240 /\ c <= 244 ->
                /\ IsCont(b, i + 1) /\ IsCont(b, i + 2) /\ IsCont(b, i + 3)
                /\ (c = 240 => b[i + 1] >= 144)
                /\ (c = 244 => b[i + 1] <= 143)
                /\ Utf8Valid(b, i + 4)
           [] OTHER -> FALSE

\* stdout.decode() / stderr.decode() (lines 45-46): raises UnicodeDecodeError
\* on bytes that are not UTF-8.
DecodeRaises(bytes) == ~Utf8Valid(bytes, 1)

(***************************************************************************)
(* State                                                                   *)
(***************************************************************************)
VARIABLES
    GITHUB_SECRET,       \* line 11: read once when the module is imported
    interpreterPresent,  \* sys.executable names a program that can be executed
    scriptPresent,       \* gitagent.py exists in the current working directory
    nonJsonBody,         \* what request.json does for a non-JSON Content-Type
    pc,                  \* per worker: where webhook() stands
    request,             \* per worker: the request being handled
    data,                \* per worker: request.json, once read
    process,             \* per worker: the Popen object and its child
    response,            \* per worker: the response returned
    launches,            \* per worker: children started for the current request
    responses            \* per worker: responses returned for the current request

vars == <<GITHUB_SECRET, interpreterPresent, scriptPresent, nonJsonBody,
          pc, request, data, process, response, launches, responses>>

config == <<GITHUB_SECRET, interpreterPresent, scriptPresent, nonJsonBody>>

(***************************************************************************)
(* Signature verifier                                                      *)
(***************************************************************************)

\* "sha256=" + hmac.new(secret.encode(), payload, sha256).hexdigest()
\* (lines 18-19): the signature a sender holding `secret` puts on `payload`.
ExpectedSignature(secret, payload) == Sha256Prefix \o HexDigest(HmacSha256(secret, payload))

\* hmac.compare_digest(a, b) on two str: TypeError unless both are ASCII;
\* otherwise equal length and no differing position.
compare_digest(a, b) ==
    IF ~IsAscii(a) \/ ~IsAscii(b)
    THEN [raised |-> TRUE, value |-> FALSE]
    ELSE [raised |-> FALSE,
          value |-> Len(a) = Len(b) /\ \A i \in 1..Len(a) : a[i] = b[i]]

\* verify_signature failing closed: without a secret every request is refused.
verify_signature_FailClosed(payload, signature) ==
    IF ~Truthy(GITHUB_SECRET)
    THEN [raised |-> FALSE, value |-> FALSE]
    ELSE compare_digest(ExpectedSignature(GITHUB_SECRET.val, payload), signature)

\* verify_signature(payload, signature), lines 13-21.  raised = TRUE is the
\* exception leaving the function.
verify_signature(payload, signature) ==
    IF ~Truthy(GITHUB_SECRET)
    THEN [raised |-> FALSE, value |-> TRUE]
    ELSE compare_digest(ExpectedSignature(GITHUB_SECRET.val, payload), signature)

(***************************************************************************)
(* Requests                                                                *)
(***************************************************************************)
ContentTypes == {"json", "form", "other"}

NoHeader == [present |-> FALSE, value |-> <<>>]
Header(v) == [present |-> TRUE, value |-> v]

\* hexdigest in upper case: a-f (97..102) become A-F (65..70).
Upper(s) == [i \in 1..Len(s) |-> IF s[i] >= 97 /\ s[i] <= 102 THEN s[i] - 32 ELSE s[i]]
\* the signature with its last character changed to another hex digit
FlipLast(s) == [s EXCEPT ![Len(s)] = IF s[Len(s)] = 48 THEN 49 ELSE 48]
\* the signature with its last character changed to U+00E9
NonAsciiLast(s) == [s EXCEPT ![Len(s)] = 233]

\* Header values a sender may put on a request with this body: none, empty,
\* the bare prefix, a lone non-ASCII character, every signature of every body
\* under every secret, and malformed variants of this body's signatures.
SignatureValues(body) ==
    LET signed(b) == {ExpectedSignature(s, b) : s \in NonEmptySecrets}
        own == signed(body)
    IN  {<<>>, Sha256Prefix, <<233>>}
        \cup UNION {signed(b) : b \in Bodies}
        \cup {Upper(s) : s \in own}
        \cup {SubSeq(s, Len(Sha256Prefix) + 1, Len(s)) : s \in own}
        \cup {SubSeq(s, 1, Len(s) - 1) : s \in own}
        \cup {Append(s, 48) : s \in own}
        \cup {FlipLast(s) : s \in own}
        \cup {NonAsciiLast(s) : s \in own}

Requests ==
    UNION {{[contentType |-> ct, body |-> b, sigHeader |-> h] :
              ct \in ContentTypes,
              h \in {NoHeader} \cup {Header(v) : v \in SignatureValues(b)}} : b \in Bodies}

NoRequest == [contentType |-> "none", body |-> "", sigHeader |-> NoHeader]

\* request.headers.get('X-Hub-Signature-256', '') (line 26)
HeaderGet(req) == IF req.sigHeader.present THEN req.sigHeader.value ELSE <<>>

\* request.data (line 27): the raw body, except that it is empty when the
\* request represents form data (the form parser has consumed the stream).
RequestData(req) == IF req.contentType = "form" THEN "" ELSE req.body

\* request.json (line 32).  kind = "abort": the framework ends the request
\* with an HTTP error; kind = "none": the value is None; kind = "value".
RequestJson(req) ==
    IF req.contentType # "json"
    THEN CASE nonJsonBody = "None" -> [kind |-> "none", status |-> 0, value |-> JsonNull]
           [] nonJsonBody = "BadRequest" -> [kind |-> "abort", status |-> 400, value |-> JsonNull]
           [] OTHER -> [kind |-> "abort", status |-> 415, value |-> JsonNull]
    ELSE LET parsed == ParseJson(req.body)
         IN  IF parsed.ok
             THEN [kind |-> "value", status |-> 0, value |-> parsed.value]
             ELSE [kind |-> "abort", status |-> 400, value |-> JsonNull]

(***************************************************************************)
(* Responses                                                               *)
(***************************************************************************)
NoResponse == [status |-> 0, message |-> "", by |-> "none"]

\* jsonify({"message": m}), status
Jsonify(m, status) == [status |-> status, message |-> m, by |-> "webhook"]

\* The framework's own error response: an exception that leaves webhook()
\* becomes 500, an aborted request the status of its HTTP error.
FrameworkError(status) == [status |-> status, message |-> "", by |-> "flask"]

\* str(e) of the exceptions the try block can catch.
LaunchErrorText == "[Errno 2] No such file or directory"
DecodeErrorText == "'utf-8' codec can't decode byte"

(***************************************************************************)
(* The child process                                                       *)
(***************************************************************************)
NoProcess == [state |-> "none", returncode |-> 0, stdout |-> <<>>, stderr |-> <<>>]

StdoutValues == {<<>>, <<111, 107, 10>>, <<255>>}
StderrValues == {<<>>, <<195, 169>>, <<195>>}
ReturnCodes == {0, 1}

\* What the interpreter writes to stderr when gitagent.py does not exist
\* ("can't open file"); it then exits with status 2.
CantOpenFile == <<99, 97, 110, 39, 116, 32, 111, 112, 101, 110, 32, 102, 105, 108, 101>>

\* How the child can end.  With gitagent.py missing the interpreter itself
\* is the child: it reports the missing file and exits with status 2.
ChildResults ==
    IF scriptPresent
    THEN {[returncode |-> rc, stdout |-> out, stderr |-> err] :
            rc \in ReturnCodes, out \in StdoutValues, err \in StderrValues}
    ELSE {[returncode |-> 2, stdout |-> <<>>, stderr |-> CantOpenFile]}

(***************************************************************************)
(* Initial state: the module has been imported, no request is in progress. *)
(***************************************************************************)
NonJsonBehaviours == {"None", "BadRequest", "UnsupportedMediaType"}

Idle ==
    /\ pc = [w \in Workers |-> "idle"]
    /\ request = [w \in Workers |-> NoRequest]
    /\ data = [w \in Workers |-> JsonNull]
    /\ process = [w \in Workers |-> NoProcess]
    /\ response = [w \in Workers |-> NoResponse]
    /\ launches = [w \in Workers |-> 0]
    /\ responses = [w \in Workers |-> 0]

Init ==
    /\ GITHUB_SECRET \in Secrets
    /\ interpreterPresent \in BOOLEAN
    /\ scriptPresent \in BOOLEAN
    /\ nonJsonBody \in NonJsonBehaviours
    /\ Idle

(***************************************************************************)
(* webhook(), lines 24-54, one action per step of the handler               *)
(***************************************************************************)

\* `return jsonify(...), status`, or the framework answering for the handler.
Return(w, resp) ==
    /\ response' = [response EXCEPT ![w] = resp]
    /\ responses' = [responses EXCEPT ![w] = @ + 1]
    /\ pc' = [pc EXCEPT ![w] = "responded"]

\* Receive keeping the request in one module-level variable that every
\* handler reads.
Receive_Global(w, reqs) ==
    /\ pc[w] = "idle"
    /\ \E req \in reqs : request' = [v \in Workers |-> req]
    /\ pc' = [pc EXCEPT ![w] = "verify"]
    /\ UNCHANGED <<config, data, process, response, launches, responses>>

\* A POST /api/webhook, one of reqs, arrives and is given to worker w.
Receive(w, reqs) ==
    /\ pc[w] = "idle"
    /\ \E req \in reqs : request' = [request EXCEPT ![w] = req]
    /\ pc' = [pc EXCEPT ![w] = "verify"]
    /\ UNCHANGED <<config, data, process, response, launches, responses>>

\* Lines 26-30: read the header and the body, verify, 403 on failure.
Verify(w) ==
    /\ pc[w] = "verify"
    /\ LET signature == HeaderGet(request[w])
           payload == RequestData(request[w])
           v == verify_signature(payload, signature)
       IN  IF v.raised
           THEN Return(w, FrameworkError(500))
           ELSE IF ~v.value
                THEN Return(w, Jsonify("Invalid signature", 403))
                ELSE /\ pc' = [pc EXCEPT ![w] = "json"]
                     /\ UNCHANGED <<response, responses>>
    /\ UNCHANGED <<config, request, data, process, launches>>

\* Lines 32-33 and 54: read request.json, test `"ref" in data`, 400 if absent.
ReadJson(w) ==
    /\ pc[w] = "json"
    /\ LET j == RequestJson(request[w])
       IN  IF j.kind = "abort"
           THEN /\ Return(w, FrameworkError(j.status))
                /\ UNCHANGED data
           ELSE /\ data' = [data EXCEPT ![w] = j.value]
                /\ LET found == RefIn(j.value)
                   IN  IF found.raised
                       THEN Return(w, FrameworkError(500))
                       ELSE IF found.value
                            THEN /\ pc' = [pc EXCEPT ![w] = "launch"]
                                 /\ UNCHANGED <<response, responses>>
                            ELSE Return(w, Jsonify("Invalid webhook event", 400))
    /\ UNCHANGED <<config, request, process, launches>>

\* Lines 36-41 and 50-52: subprocess.Popen([sys.executable, gitagent.py]).
\* It raises when the interpreter cannot be executed; the except clause
\* turns that into the 500 response.  Otherwise the child is running.
Launch(w) ==
    /\ pc[w] = "launch"
    /\ IF ~interpreterPresent
       THEN /\ Return(w, Jsonify("Error executing script: " \o LaunchErrorText, 500))
            /\ UNCHANGED <<process, launches>>
       ELSE /\ process' = [process EXCEPT ![w] = [NoProcess EXCEPT !.state = "running"]]
            /\ launches' = [launches EXCEPT ![w] = @ + 1]
            /\ pc' = [pc EXCEPT ![w] = "communicate"]
            /\ UNCHANGED <<response, responses>>
    /\ UNCHANGED <<config, request, data>>

\* The child of worker w terminates with one of results, its pipes closed.
ChildExit(w, results) ==
    /\ process[w].state = "running"
    /\ \E r \in results :
         process' = [process EXCEPT ![w] =
                       [state |-> "exited", returncode |-> r.returncode,
                        stdout |-> r.stdout, stderr |-> r.stderr]]
    /\ UNCHANGED <<config, pc, request, data, response, launches, responses>>

\* The child of worker w enters a state it never leaves (gitagent.py hangs).
ChildHang(w) ==
    /\ process[w].state = "running"
    /\ scriptPresent
    /\ process' = [process EXCEPT ![w].state = "hung"]
    /\ UNCHANGED <<config, pc, request, data, response, launches, responses>>

\* Communicate that does not wait for the child: it answers as soon as the
\* child has been started, with whatever output has been read so far.
Communicate_NoWait(w) ==
    /\ pc[w] = "communicate"
    /\ IF DecodeRaises(process[w].stdout) \/ DecodeRaises(process[w].stderr)
       THEN Return(w, Jsonify("Error executing script: " \o DecodeErrorText, 500))
       ELSE Return(w, Jsonify("Optimization script triggered successfully", 200))
    /\ UNCHANGED <<config, request, data, process, launches>>

\* Lines 42-52: communicate() returns once the child has terminated and both
\* pipes are drained; the output is decoded for the log; 200, or 500 from the
\* except clause when decoding raises.
Communicate(w) ==
    /\ pc[w] = "communicate"
    /\ process[w].state = "exited"
    /\ IF DecodeRaises(process[w].stdout) \/ DecodeRaises(process[w].stderr)
       THEN Return(w, Jsonify("Error executing script: " \o DecodeErrorText, 500))
       ELSE Return(w, Jsonify("Optimization script triggered successfully", 200))
    /\ UNCHANGED <<config, request, data, process, launches>>

\* The response has been sent; the request and everything made for it go.
Finish(w) ==
    /\ pc[w] = "responded"
    /\ pc' = [pc EXCEPT ![w] = "idle"]
    /\ request' = [request EXCEPT ![w] = NoRequest]
    /\ data' = [data EXCEPT ![w] = JsonNull]
    /\ process' = [process EXCEPT ![w] = NoProcess]
    /\ response' = [response EXCEPT ![w] = NoResponse]
    /\ launches' = [launches EXCEPT ![w] = 0]
    /\ responses' = [responses EXCEPT ![w] = 0]
    /\ UNCHANGED config

(***************************************************************************)
(* Spec: one request at a time, over every request of Requests.            *)
(***************************************************************************)
Next ==
    \/ Receive(1, Requests)
    \/ Verify(1)
    \/ ReadJson(1)
    \/ Launch(1)
    \/ ChildExit(1, ChildResults)
    \/ ChildHang(1)
    \/ Communicate(1)
    \/ Finish(1)

Spec == Init /\ [][Next]_vars

(***************************************************************************)
(* SpecConc: NumWorkers requests handled at the same time (one thread or   *)
(* process per request).  The workers run the same steps in any            *)
(* interleaving, over a smaller set of requests and child results.         *)
(***************************************************************************)
ConcSecret == "s3cr3t"

ConcBodies == {"{\"ref\": \"refs/heads/main\"}", "{\"other\": \"field\"}", "[\"ref\"]", "5"}

ConcRequests ==
    UNION {{[contentType |-> "json", body |-> b, sigHeader |-> h] :
              h \in {NoHeader, Header(ExpectedSignature(ConcSecret, b)),
                     Header(NonAsciiLast(ExpectedSignature(ConcSecret, b)))}} :
           b \in ConcBodies}

ConcChildResults ==
    {[returncode |-> 0, stdout |-> <<111, 107, 10>>, stderr |-> <<>>],
     [returncode |-> 1, stdout |-> <<255>>, stderr |-> <<>>]}

InitConc ==
    /\ GITHUB_SECRET \in {NoSecret, [isSet |-> TRUE, val |-> ConcSecret]}
    /\ interpreterPresent \in BOOLEAN
    /\ scriptPresent = TRUE
    /\ nonJsonBody = "UnsupportedMediaType"
    /\ Idle

NextConc ==
    \E w \in Workers :
        \/ Receive(w, ConcRequests)
        \/ Verify(w)
        \/ ReadJson(w)
        \/ Launch(w)
        \/ ChildExit(w, ConcChildResults)
        \/ ChildHang(w)
        \/ Communicate(w)
        \/ Finish(w)

SpecConc == InitConc /\ [][NextConc]_vars

(***************************************************************************)
(* Vocabulary of the properties                                            *)
(***************************************************************************)
Busy(w) == pc[w] # "idle"
Responded(w) == pc[w] = "responded"

\* What verify_signature returned, or returns, for worker w's request.
VerifyResult(w) == verify_signature(RequestData(request[w]), HeaderGet(request[w]))

\* Worker w has run lines 26-29 on its request.
VerifyDone(w) == pc[w] \in {"json", "launch", "communicate", "responded"}

\* Worker w's request has passed line 29.
Verified(w) ==
    /\ VerifyDone(w)
    /\ ~VerifyResult(w).raised
    /\ VerifyResult(w).value

\* A secret is configured and the header is present and equal to
\* "sha256=" + hex(HMAC-SHA256(secret, raw body)).
HeaderMatchesBody(req) ==
    /\ req.sigHeader.present
    /\ req.sigHeader.value = ExpectedSignature(GITHUB_SECRET.val, req.body)

\* The body is a JSON object with a top-level field named ref.
HasRefField(body) ==
    /\ ParseJson(body).ok
    /\ ParseJson(body).value.type = "object"
    /\ "ref" \in ParseJson(body).value.keys

InvalidSignature == Jsonify("Invalid signature", 403)
InvalidWebhookEvent == Jsonify("Invalid webhook event", 400)
TriggeredSuccessfully == Jsonify("Optimization script triggered successfully", 200)
LaunchError == Jsonify("Error executing script: " \o LaunchErrorText, 500)

\* The response of lines 32-54 run in one piece on req, with proc the child
\* (if one was started) as communicate() found it.  It does not read the
\* signature header.
AfterVerification(req, proc) ==
    LET j == RequestJson(req)
    IN  IF j.kind = "abort" THEN FrameworkError(j.status)
        ELSE IF RefIn(j.value).raised THEN FrameworkError(500)
        ELSE IF ~RefIn(j.value).value THEN InvalidWebhookEvent
        ELSE IF ~interpreterPresent THEN LaunchError
        ELSE IF DecodeRaises(proc.stdout) \/ DecodeRaises(proc.stderr)
             THEN Jsonify("Error executing script: " \o DecodeErrorText, 500)
             ELSE TriggeredSuccessfully

\* The response of webhook() run in one piece, alone, on req.
HandledAlone(req, proc) ==
    LET v == verify_signature(RequestData(req), HeaderGet(req))
    IN  IF v.raised THEN FrameworkError(500)
        ELSE IF ~v.value THEN InvalidSignature
        ELSE AfterVerification(req, proc)

\* The variables a handler owns while it handles its request.
Locals(w) == <<pc[w], request[w], data[w], process[w], response[w], launches[w], responses[w]>>

(***************************************************************************)
(* C1.  With a secret configured, a request whose signature header is      *)
(* missing or differs from "sha256=" + hex(HMAC-SHA256(secret, raw body))  *)
(* never gets past verification, ends with 403 "Invalid signature", and    *)
(* no subprocess is launched for it.                                       *)
(***************************************************************************)
C1_BadSignatureIs403 ==
    \A w \in Workers :
        (Truthy(GITHUB_SECRET) /\ Busy(w) /\ ~HeaderMatchesBody(request[w]))
        => /\ pc[w] \in {"verify", "responded"}
           /\ launches[w] = 0
           /\ process[w].state = "none"
           /\ Responded(w) => response[w] = InvalidSignature

(***************************************************************************)
(* C2.  A verified request whose body is a JSON value other than an object *)
(* with a field named ref (an object without it, an array, a string, a     *)
(* number, null) ends with 400 "Invalid webhook event" and no subprocess.  *)
(***************************************************************************)
C2_NoRefFieldIs400 ==
    \A w \in Workers :
        (/\ Verified(w)
         /\ request[w].contentType = "json"
         /\ ParseJson(request[w].body).ok
         /\ ~HasRefField(request[w].body))
        => /\ pc[w] \in {"json", "responded"}
           /\ launches[w] = 0
           /\ Responded(w) => response[w] = InvalidWebhookEvent

(***************************************************************************)
(* C3.  A verified request whose JSON object has a ref field and whose     *)
(* subprocess was launched gets 200 "Optimization script triggered         *)
(* successfully", whatever the exit code and whatever bytes the subprocess *)
(* wrote to stdout and stderr.                                             *)
(***************************************************************************)
C3_LaunchedIs200 ==
    \A w \in Workers :
        (Responded(w) /\ Verified(w) /\ HasRefField(request[w].body) /\ launches[w] = 1)
        => response[w] = TriggeredSuccessfully

(***************************************************************************)
(* C4.  A verified request with a ref field gets 500 "Error executing      *)
(* script: <launch error>" and never 200 when the interpreter or the       *)
(* script file gitagent.py is absent.                                      *)
(***************************************************************************)
C4_AbsentRunnerIs500 ==
    \A w \in Workers :
        (/\ Responded(w) /\ Verified(w)
         /\ request[w].contentType = "json"
         /\ HasRefField(request[w].body)
         /\ (~interpreterPresent \/ ~scriptPresent))
        => response[w] = LaunchError

(***************************************************************************)
(* C5.  Fail-open: with the secret absent or empty, verify_signature       *)
(* returns True for every body and every header value (a missing header    *)
(* included), no response is 403, and the response is the one the rest of  *)
(* the handler gives for the payload and the subprocess launch.            *)
(***************************************************************************)
C5_FailOpen ==
    \A w \in Workers :
        (~Truthy(GITHUB_SECRET) /\ VerifyDone(w))
        => /\ VerifyResult(w) = [raised |-> FALSE, value |-> TRUE]
           /\ response[w].status # 403
           /\ Responded(w) => response[w] = AfterVerification(request[w], process[w])

\* C5 witness: the secret is the empty string, the header is a lone
\* non-ASCII character, and the request has been answered 200.
C5_Witness ==
    /\ GITHUB_SECRET = [isSet |-> TRUE, val |-> ""]
    /\ request[1].sigHeader = Header(<<233>>)
    /\ Responded(1)
    /\ response[1] = TriggeredSuccessfully

(***************************************************************************)
(* C6.  With a non-empty secret S, verify_signature(B, sig) returns True   *)
(* when sig is "sha256=" + lowercase hex HMAC-SHA256(S, B), and returns    *)
(* False for every other sig.                                              *)
(***************************************************************************)
C6_TrueExactlyForExpected ==
    \A w \in Workers :
        (Truthy(GITHUB_SECRET) /\ VerifyDone(w))
        => VerifyResult(w) =
             [raised |-> FALSE,
              value |-> HeaderGet(request[w]) =
                          ExpectedSignature(GITHUB_SECRET.val, RequestData(request[w]))]

(***************************************************************************)
(* C7.  With a secret configured, verify_signature raises for no header    *)
(* value: a malformed one makes it return False, and the request ends in   *)
(* the 403 response, never in an unhandled error.                          *)
(***************************************************************************)
C7_VerifierNeverRaises ==
    \A w \in Workers :
        (Truthy(GITHUB_SECRET) /\ VerifyDone(w))
        => /\ ~VerifyResult(w).raised
           /\ ~VerifyResult(w).value => response[w] = InvalidSignature

\* The three outcomes of the handler: rejected for the signature, rejected
\* for the payload, accepted (the launch was attempted); a response the
\* framework made for an exception is none of them.
OutcomeClass(resp) ==
    CASE resp.by = "webhook" /\ resp.status = 403 -> "rejected-403"
      [] resp.by = "webhook" /\ resp.status = 400 -> "rejected-400"
      [] resp.by = "webhook" -> "accepted"
      [] OTHER -> "unhandled"

\* The request's signature is valid: no secret is configured, or the header
\* equals the signature of the raw body.
SignatureValid(req) == ~Truthy(GITHUB_SECRET) \/ HeaderMatchesBody(req)

(***************************************************************************)
(* C8.  Determinism: two requests handled under the same configuration     *)
(* that agree on signature validity and on the presence of the ref field   *)
(* end in the same outcome class (403, 400 or accepted).                   *)
(***************************************************************************)
C8_OutcomeClassDetermined ==
    \A w1, w2 \in Workers :
        (/\ Responded(w1) /\ Responded(w2)
         /\ SignatureValid(request[w1]) = SignatureValid(request[w2])
         /\ HasRefField(request[w1].body) = HasRefField(request[w2].body))
        => OutcomeClass(response[w1]) = OutcomeClass(response[w2])

(***************************************************************************)
(* C9.  A request is handled in one pass: at most one subprocess launch    *)
(* and one response, never changed once given; an accepted request is      *)
(* answered only after its subprocess has terminated (no 200 while it      *)
(* runs); a request whose subprocess never terminates is never answered.   *)
(***************************************************************************)
C9_OnePass(w) ==
    /\ launches[w] <= 1
    /\ responses[w] <= 1
    /\ Responded(w) <=> responses[w] = 1
    /\ Responded(w) <=> response[w] # NoResponse
    /\ (Responded(w) /\ launches[w] = 1) => process[w].state = "exited"
    /\ response[w].status = 200 => (launches[w] = 1 /\ process[w].state = "exited")
    /\ process[w].state \in {"running", "hung"} =>
          (pc[w] = "communicate" /\ response[w] = NoResponse)

C9_NoSecondAnswer(w) ==
    /\ (Responded(w) /\ pc'[w] = "responded") => response'[w] = response[w]
    /\ process[w].state = "hung" =>
          (process'[w].state = "hung" /\ response'[w] = NoResponse)
    /\ launches'[w] > launches[w] => (launches[w] = 0 /\ responses[w] = 0)

C9_SinglePassBlocking ==
    /\ [](\A w \in Workers : C9_OnePass(w))
    /\ [][\A w \in Workers : C9_NoSecondAnswer(w)]_vars

\* C9 witness: a request answered 200 after its subprocess ended with a
\* non-zero exit code.
C9_Witness ==
    /\ Responded(1)
    /\ launches[1] = 1
    /\ process[1].state = "exited"
    /\ process[1].returncode = 1
    /\ response[1] = TriggeredSuccessfully

(***************************************************************************)
(* C10.  Requests handled at the same time share no mutable state: every   *)
(* step changes the variables of one handler only, no step writes the      *)
(* secret, and under every interleaving each response is the one the       *)
(* request gets when handled alone.  Two subprocesses may run at once.     *)
(***************************************************************************)
C10_Isolated ==
    /\ [](\A w \in Workers :
            Responded(w) => response[w] = HandledAlone(request[w], process[w]))
    /\ [][/\ GITHUB_SECRET' = GITHUB_SECRET
          /\ Cardinality({w \in Workers : Locals(w)' # Locals(w)}) <= 1]_vars

\* C10 witness: two accepted requests with both subprocesses running.
C10_Witness ==
    /\ process[1].state = "running"
    /\ process[2].state = "running"
    /\ pc[1] = "communicate"
    /\ pc[2] = "communicate"

=============================================================================
